---- MODULE Spec2Model ----
(***************************************************************************)
(* Model of the auto-extending, partially memory-mapped file (IWFS_EXT) of *)
(* src/src/fs/iwexfile.c.  Offsets and sizes are bytes; the page size is   *)
(* scaled down to PSIZE bytes and the offset domain to 0..OFF_T_MAX.       *)
(*                                                                         *)
(* Every facade operation runs its body under the instance rwlock, so the  *)
(* body between taking and dropping the lock is one atomic step here.  The *)
(* two operations that drop the read lock and re-take the write lock       *)
(* (write, ensure_size) are two steps, with the thread parked in between.  *)
(*                                                                         *)
(* ftruncate, mmap and munmap may fail.  An operation is given a fault     *)
(* plan: the set of indices (in call order) of the system calls that fail. *)
(*                                                                         *)
(* use_locks is on.  A read lock outlives a step only between acquire_mmap *)
(* and release_mmap; close sets f->impl to 0, after which every call finds *)
(* the instance closed.                                                    *)
(***************************************************************************)
EXTENDS Integers, Sequences, FiniteSets, TLC

\* ---------------------------------------------------------------- bounds
PSIZE == 2
OFF_T_MAX == 31
MaxFile == 4
MaxSlots == 3
MaxLen == 4
MaxFaults == 2
MaxHold == 1

Threads == {"t1", "t2"}
NoFaults == {}
MaxOffOpts == {0, PSIZE - 1, PSIZE + 1}
MulCtxs == {<<3, 2>>, <<5, 5>>, <<1, 2>>}
SlotIds == 1..(MaxSlots + 1)
Fuel == MaxSlots + 2

\* ---------------------------------------------------------------- helpers
MIN(a, b) == IF a < b THEN a ELSE b
MAX(a, b) == IF a > b THEN a ELSE b
IW_ROUNDUP(x, v) == ((x + v - 1) \div v) * v
IW_ROUNDOWN(x, v) == (x \div v) * v
IW_RANGES_OVERLAP(s1, e1, s2, e2) == s1 < e2 /\ s2 < e1

\* size_t is unsigned and one bit wider than the positive range of off_t;
\* sums of the two are taken in size_t and stored into off_t by wrap-around
SIZE_T_MAX == 2 * OFF_T_MAX + 1
SizeT(x) == x % (SIZE_T_MAX + 1)
OffT(x) == IF SizeT(x) > OFF_T_MAX THEN SizeT(x) - (SIZE_T_MAX + 1) ELSE SizeT(x)

Zeros(n) == [i \in 1..n |-> 0]
Resize(d, n) == [i \in 1..n |-> IF i <= Len(d) THEN d[i] ELSE 0]

FreeSlot == [used |-> FALSE, off |-> 0, len |-> 0, maxlen |-> 0,
             mm |-> "NULL", prot |-> "none", prev |-> 0, next |-> 0]

\* first error wins
IWRC(act, rc) == IF rc = "OK" THEN act ELSE rc

\* The machine record m carries the instance fields an operation touches:
\*   fsize, data (the file's bytes on disk), heap/head (the slot list),
\*   ctx (policy context), n (system calls issued so far), rc (return code),
\*   nf (how many of them failed), sp/out (bytes transferred, bytes read),
\*   ub (a copy went through an invalid mapping),
\*   pol/polreq/polcur/polret (the resize policy was called for sizing, with
\*   what, and what it returned),
\*   bk (the calls made to the positional backend and the policy's
\*   deactivation, in order), lost (slots freed whose live mapping was given
\*   no munmap call), pb (the file offsets handed to the positional backend's
\*   read and write), sys (the system calls issued, in order, each with its
\*   outcome and whether the realised slot ranges lay within the file on disk
\*   when it returned).
Failing(m, plan) == (m.n + 1) \in plan

\* every realised slot range [off, off + len) lies within the file on disk
Inside(heap, data) ==
  \A i \in SlotIds :
    heap[i].used /\ heap[i].len > 0 => heap[i].off + heap[i].len <= Len(data)

\* m after the system call named call has returned
Sys(m, call) ==
  [m EXCEPT !.sys = Append(@, [call |-> call, ok |-> m.rc = "OK",
                               inside |-> Inside(m.heap, m.data)])]

\* ---------------------------------------------------------------- realise
exfile_initmmap_slot_lw(m, s, plan, omode) ==
  LET sl == m.heap[s]
      nlen == IF sl.off >= m.fsize THEN 0 ELSE MIN(sl.maxlen, m.fsize - sl.off)
  IN IF nlen = sl.len THEN [m EXCEPT !.rc = "OK"]
     ELSE
       LET ufail == sl.mm # "OK" \/ Failing(m, plan)
           m1 == IF sl.len # 0
                 THEN Sys([m EXCEPT !.n = @ + 1,
                                    !.nf = IF ufail THEN @ + 1 ELSE @,
                                    !.heap[s].len = 0,
                                    !.heap[s].mm = IF ufail THEN sl.mm ELSE "STALE",
                                    !.rc = IF ufail THEN "ERRNO" ELSE "OK"], "munmap")
                 ELSE [m EXCEPT !.rc = "OK"]
       IN IF m1.rc # "OK" THEN m1
          ELSE IF nlen > 0
               THEN Sys([m1 EXCEPT !.n = @ + 1,
                                   !.nf = IF Failing(m1, plan) THEN @ + 1 ELSE @,
                                   !.heap[s].len = nlen,
                                   !.heap[s].mm = IF Failing(m1, plan) THEN "FAILED" ELSE "OK",
                                   !.heap[s].prot = IF omode = "IWFS_OWRITE" THEN "rw" ELSE "r",
                                   !.rc = IF Failing(m1, plan) THEN "ERRNO" ELSE "OK"],
                        "mmap")
               ELSE m1

RECURSIVE initmmap_from(_, _, _, _, _)
initmmap_from(m, s, plan, omode, fuel) ==
  IF s = 0 \/ fuel = 0 THEN m
  ELSE LET m1 == exfile_initmmap_slot_lw(m, s, plan, omode)
       IN IF m1.rc # "OK" THEN m1
          ELSE initmmap_from(m1, m1.heap[s].next, plan, omode, fuel - 1)

exfile_initmmap_lw(m, plan, omode) ==
  initmmap_from([m EXCEPT !.rc = "OK"], m.head, plan, omode, Fuel)

\* ---------------------------------------------------------------- truncate
iwp_ftruncate(m, size, plan) ==
  IF Failing(m, plan)
  THEN Sys([m EXCEPT !.n = @ + 1, !.nf = @ + 1, !.rc = "ERRNO"], "ftruncate")
  ELSE Sys([m EXCEPT !.n = @ + 1, !.rc = "OK", !.data = Resize(m.data, size)],
           "ftruncate")

truncfail(m, old_size, plan, omode) ==
  LET rc == m.rc
      m1 == exfile_initmmap_lw([m EXCEPT !.fsize = old_size], plan, omode)
  IN [m1 EXCEPT !.rc = IWRC(m1.rc, rc)]

\* _exfile_truncate_lw without its tests of the open mode
exfile_truncate_lw_any_mode(m, size0, plan, omode, maxoff) ==
  LET old_size == m.fsize
      size == IW_ROUNDUP(size0, PSIZE)
  IN IF m.fsize = size0 THEN [m EXCEPT !.rc = "OK"]
     ELSE IF old_size < size
     THEN IF maxoff # 0 /\ size > maxoff THEN [m EXCEPT !.rc = "MAXOFF"]
          ELSE LET m1 == iwp_ftruncate([m EXCEPT !.fsize = size], size, plan)
               IN IF m1.rc # "OK" THEN truncfail(m1, old_size, plan, omode)
                  ELSE exfile_initmmap_lw(m1, plan, omode)
     ELSE IF old_size > size
     THEN LET m1 == exfile_initmmap_lw([m EXCEPT !.fsize = size], plan, omode)
          IN IF m1.rc # "OK" THEN truncfail(m1, old_size, plan, omode)
             ELSE LET m2 == iwp_ftruncate(m1, size, plan)
                  IN IF m2.rc # "OK" THEN truncfail(m2, old_size, plan, omode)
                     ELSE m2
     ELSE [m EXCEPT !.rc = "OK"]

\* _exfile_truncate_lw cutting the file before the slots are re-realised
exfile_truncate_lw_cut_first(m, size0, plan, omode, maxoff) ==
  LET old_size == m.fsize
      size == IW_ROUNDUP(size0, PSIZE)
  IN IF m.fsize = size0 THEN [m EXCEPT !.rc = "OK"]
     ELSE IF omode # "IWFS_OWRITE" THEN [m EXCEPT !.rc = "READONLY"]
     ELSE IF old_size < size /\ maxoff # 0 /\ size > maxoff THEN [m EXCEPT !.rc = "MAXOFF"]
     ELSE IF old_size # size
     THEN LET m1 == iwp_ftruncate([m EXCEPT !.fsize = size], size, plan)
          IN IF m1.rc # "OK" THEN truncfail(m1, old_size, plan, omode)
             ELSE exfile_initmmap_lw(m1, plan, omode)
     ELSE [m EXCEPT !.rc = "OK"]

exfile_truncate_lw(m, size0, plan, omode, maxoff) ==
  LET old_size == m.fsize
      size == IW_ROUNDUP(size0, PSIZE)
  IN IF m.fsize = size0 THEN [m EXCEPT !.rc = "OK"]
     ELSE IF old_size < size
     THEN IF omode # "IWFS_OWRITE" THEN [m EXCEPT !.rc = "READONLY"]
          ELSE IF maxoff # 0 /\ size > maxoff THEN [m EXCEPT !.rc = "MAXOFF"]
          ELSE LET m1 == iwp_ftruncate([m EXCEPT !.fsize = size], size, plan)
               IN IF m1.rc # "OK" THEN truncfail(m1, old_size, plan, omode)
                  \* a failure of the re-realisation after growth is returned
                  \* as it is: the new size stays
                  ELSE exfile_initmmap_lw(m1, plan, omode)
     ELSE IF old_size > size
     THEN IF omode # "IWFS_OWRITE" THEN [m EXCEPT !.rc = "READONLY"]
          ELSE LET m1 == exfile_initmmap_lw([m EXCEPT !.fsize = size], plan, omode)
               IN IF m1.rc # "OK" THEN truncfail(m1, old_size, plan, omode)
                  ELSE LET m2 == iwp_ftruncate(m1, size, plan)
                       IN IF m2.rc # "OK" THEN truncfail(m2, old_size, plan, omode)
                          ELSE m2
     ELSE [m EXCEPT !.rc = "OK"]

\* ---------------------------------------------------------------- policies
\* Each returns <<next size, new context>>.  The context is a record
\* [prev_sz, n, dn]; prev_sz = -1 stands for a context not yet allocated.
\* nsize = -1 is the call that lets the policy free its context.
exfile_default_szpolicy(nsize, csize, ctx) ==
  IF nsize = -1 THEN <<0, ctx>>
  ELSE <<IW_ROUNDUP(nsize, PSIZE), ctx>>

\* the fibonacci policy without its update of prev_sz
iw_exfile_szpolicy_fibo_keep_prev(nsize, csize, ctx) ==
  IF nsize = -1 THEN <<0, [ctx EXCEPT !.prev_sz = -1]>> ELSE
  LET prev == IF ctx.prev_sz = -1 THEN 0 ELSE ctx.prev_sz
      r1 == MAX(csize + prev, nsize)
      r2 == IW_ROUNDUP(r1, PSIZE)
      res == IF r2 > OFF_T_MAX THEN OFF_T_MAX ELSE r2
  IN <<res, [ctx EXCEPT !.prev_sz = IF @ = -1 THEN 0 ELSE @]>>

iw_exfile_szpolicy_fibo(nsize, csize, ctx) ==
  IF nsize = -1 THEN <<0, [ctx EXCEPT !.prev_sz = -1]>> ELSE
  LET prev == IF ctx.prev_sz = -1 THEN 0 ELSE ctx.prev_sz
      r1 == MAX(csize + prev, nsize)
      r2 == IW_ROUNDUP(r1, PSIZE)
      res == IF r2 > OFF_T_MAX THEN OFF_T_MAX ELSE r2
  IN <<res, [ctx EXCEPT !.prev_sz = csize]>>

iw_exfile_szpolicy_mul(nsize, csize, ctx) ==
  IF nsize = -1 THEN <<0, ctx>> ELSE
  IF ctx.dn = 0 \/ ctx.n < ctx.dn
  THEN exfile_default_szpolicy(nsize, csize, ctx)
  ELSE LET r1 == (nsize \div ctx.dn) * ctx.n
           r2 == IW_ROUNDUP(r1, PSIZE)
       IN <<IF r2 > OFF_T_MAX THEN OFF_T_MAX ELSE r2, ctx>>

rspolicy_call(pol, nsize, csize, ctx) ==
  CASE pol = "default" -> exfile_default_szpolicy(nsize, csize, ctx)
    [] pol = "fibo" -> iw_exfile_szpolicy_fibo(nsize, csize, ctx)
    [] pol = "mul" -> iw_exfile_szpolicy_mul(nsize, csize, ctx)

\* ---------------------------------------------------------------- ensure_size
\* ensure_size_lw without its test of fsize against sz
exfile_ensure_size_lw_no_test(m, sz, plan, omode, maxoff, pol) ==
  LET r == rspolicy_call(pol, sz, m.fsize, m.ctx)
      nsz == r[1]
      m1 == [m EXCEPT !.ctx = r[2], !.pol = TRUE, !.polret = nsz,
                      !.polreq = sz, !.polcur = m.fsize]
  IN IF nsz < sz \/ nsz % PSIZE # 0
     THEN [m1 EXCEPT !.rc = "RESIZE_POLICY_FAIL"]
     ELSE IF maxoff # 0 /\ nsz > maxoff
          THEN IF maxoff < sz THEN [m1 EXCEPT !.rc = "MAXOFF"]
               ELSE exfile_truncate_lw(m1, maxoff, plan, omode, maxoff)
          ELSE exfile_truncate_lw(m1, nsz, plan, omode, maxoff)

exfile_ensure_size_lw(m, sz, plan, omode, maxoff, pol) ==
  IF m.fsize >= sz THEN [m EXCEPT !.rc = "OK"]
  ELSE LET r == rspolicy_call(pol, sz, m.fsize, m.ctx)
           nsz == r[1]
           m1 == [m EXCEPT !.ctx = r[2], !.pol = TRUE, !.polret = nsz,
                           !.polreq = sz, !.polcur = m.fsize]
       IN IF nsz < sz \/ nsz % PSIZE # 0
          THEN [m1 EXCEPT !.rc = "RESIZE_POLICY_FAIL"]
          ELSE IF maxoff # 0 /\ nsz > maxoff
               THEN IF maxoff < sz THEN [m1 EXCEPT !.rc = "MAXOFF"]
                    ELSE exfile_truncate_lw(m1, maxoff, plan, omode, maxoff)
               ELSE exfile_truncate_lw(m1, nsz, plan, omode, maxoff)

\* ---------------------------------------------------------------- slot list
NextFree(heap) == CHOOSE i \in SlotIds : ~heap[i].used /\ \A j \in 1..(i - 1) : heap[j].used

\* maxlen as adjusted by add_mmap: rounded up to a page, saturating down
AdjMaxlen(off, maxlen0) ==
  LET maxlen1 == IF OFF_T_MAX - off < maxlen0 THEN OFF_T_MAX - off ELSE maxlen0
      tmp == IW_ROUNDUP(maxlen1, PSIZE)
  IN IF tmp < maxlen1 \/ OFF_T_MAX - off < tmp
     THEN IW_ROUNDOWN(maxlen1, PSIZE) ELSE tmp

\* the walk with its two tests swapped: the stop comes before the overlap test
RECURSIVE add_mmap_walk_stop_first(_, _, _, _)
add_mmap_walk_stop_first(heap, s, ns, fuel) ==
  IF s = 0 \/ fuel = 0 THEN [rc |-> "OK", s |-> 0]
  ELSE LET e1 == heap[s].off + heap[s].maxlen
           e2 == heap[ns].off + heap[ns].maxlen
       IN IF heap[ns].off < heap[s].off THEN [rc |-> "OK", s |-> s]
          ELSE IF IW_RANGES_OVERLAP(heap[s].off, e1, heap[ns].off, e2)
          THEN [rc |-> "MMAP_OVERLAP", s |-> s]
          ELSE add_mmap_walk_stop_first(heap, heap[s].next, ns, fuel - 1)

\* the walk of add_mmap over the existing slots: the overlap test, then the
\* stop at the first slot that starts after the new one
RECURSIVE add_mmap_walk(_, _, _, _)
add_mmap_walk(heap, s, ns, fuel) ==
  IF s = 0 \/ fuel = 0 THEN [rc |-> "OK", s |-> 0]
  ELSE LET e1 == heap[s].off + heap[s].maxlen
           e2 == heap[ns].off + heap[ns].maxlen
       IN IF IW_RANGES_OVERLAP(heap[s].off, e1, heap[ns].off, e2)
          THEN [rc |-> "MMAP_OVERLAP", s |-> s]
          ELSE IF heap[ns].off < heap[s].off THEN [rc |-> "OK", s |-> s]
          ELSE add_mmap_walk(heap, heap[s].next, ns, fuel - 1)

\* the insertion without the repair of the tail's next link at the head
add_mmap_insert_before_no_tail_fix(m, s, ns) ==
  LET h1 == [m.heap EXCEPT ![ns].next = s, ![ns].prev = m.heap[s].prev]
      h2 == [h1 EXCEPT ![h1[s].prev].next = ns]
      h3 == [h2 EXCEPT ![s].prev = ns]
  IN IF s = m.head
     THEN [m EXCEPT !.head = ns, !.heap = h3]
     ELSE [m EXCEPT !.heap = h3]

add_mmap_insert_before(m, s, ns) ==
  LET h1 == [m.heap EXCEPT ![ns].next = s, ![ns].prev = m.heap[s].prev]
      h2 == [h1 EXCEPT ![h1[s].prev].next = ns]
      h3 == [h2 EXCEPT ![s].prev = ns]
  IN IF s = m.head
     THEN [m EXCEPT !.head = ns, !.heap = [h3 EXCEPT ![h3[ns].prev].next = 0]]
     ELSE [m EXCEPT !.heap = h3]

add_mmap_insert_end(m, ns) ==
  LET s == m.head
      h1 == [m.heap EXCEPT ![ns].next = 0, ![ns].prev = m.heap[s].prev]
      h2 == [h1 EXCEPT ![h1[s].prev].next = ns]
      h3 == [h2 EXCEPT ![s].prev = ns]
  IN [m EXCEPT !.heap = h3]

\* the finish: label of add_mmap, with ns allocated
add_mmap_finish(m, ns) ==
  IF m.rc # "OK"
  THEN [m EXCEPT !.head = IF m.head = ns THEN 0 ELSE m.head,
                 !.heap[ns] = FreeSlot,
                 !.lost = IF m.heap[ns].mm = "OK" THEN @ + 1 ELSE @]
  ELSE m

exfile_add_mmap(m, off, maxlen0, plan, omode) ==
  IF off % PSIZE # 0 THEN [m EXCEPT !.rc = "NOT_ALIGNED"]
  ELSE LET maxlen == AdjMaxlen(off, maxlen0) IN
    IF maxlen = 0 THEN [m EXCEPT !.rc = "OUT_OF_BOUNDS"]
    ELSE
      LET ns == NextFree(m.heap)
          m0 == [m EXCEPT !.heap[ns] = [used |-> TRUE, off |-> off, len |-> 0,
                                         maxlen |-> maxlen, mm |-> "NULL",
                                         prot |-> "none",
                                         prev |-> 0, next |-> 0]]
          m1 == exfile_initmmap_slot_lw(m0, ns, plan, omode)
      IN IF m1.rc # "OK" THEN add_mmap_finish(m1, ns)
         ELSE IF m1.head = 0
              THEN add_mmap_finish([m1 EXCEPT !.heap[ns].next = 0,
                                              !.heap[ns].prev = ns,
                                              !.head = ns], ns)
              ELSE LET w == add_mmap_walk(m1.heap, m1.head, ns, Fuel)
                   IN IF w.rc # "OK" THEN add_mmap_finish([m1 EXCEPT !.rc = w.rc], ns)
                      ELSE IF w.s # 0
                           THEN add_mmap_finish(add_mmap_insert_before(m1, w.s, ns), ns)
                           ELSE add_mmap_finish(add_mmap_insert_end(m1, ns), ns)

RECURSIVE find_slot(_, _, _, _)
find_slot(heap, s, off, fuel) ==
  IF s = 0 \/ fuel = 0 THEN 0
  ELSE IF heap[s].off = off THEN s
  ELSE find_slot(heap, heap[s].next, off, fuel - 1)

remove_mmap_unlink(m, s) ==
  LET h == m.heap IN
  IF m.head = s
  THEN [m EXCEPT !.heap = IF h[s].next # 0
                          THEN [h EXCEPT ![h[s].next].prev = h[s].prev] ELSE h,
                 !.head = h[s].next]
  ELSE IF h[m.head].prev = s
  THEN LET h1 == [h EXCEPT ![h[s].prev].next = 0]
       IN [m EXCEPT !.heap = [h1 EXCEPT ![m.head].prev = h1[s].prev]]
  ELSE LET h1 == [h EXCEPT ![h[s].prev].next = h[s].next]
       IN [m EXCEPT !.heap = [h1 EXCEPT ![h1[s].next].prev = h1[s].prev]]

exfile_remove_mmap_wl(m, off, plan) ==
  LET s == find_slot(m.heap, m.head, off, Fuel) IN
  IF s = 0 THEN [m EXCEPT !.rc = "NOT_MMAPED"]
  ELSE LET m1 == remove_mmap_unlink(m, s)
           sl == m.heap[s]
           ufail == sl.mm # "OK" \/ Failing(m1, plan)
           m2 == IF sl.len # 0
                 THEN Sys([m1 EXCEPT !.n = @ + 1, !.nf = IF ufail THEN @ + 1 ELSE @,
                                     !.rc = IF ufail THEN "ERRNO" ELSE "OK"], "munmap")
                 ELSE [m1 EXCEPT !.rc = "OK",
                                 !.lost = IF sl.mm = "OK" THEN @ + 1 ELSE @]
       IN [m2 EXCEPT !.heap[s] = FreeSlot]

\* forward traversal from the head: the sequence of slot ids visited
RECURSIVE fwd_from(_, _, _)
fwd_from(heap, s, fuel) ==
  IF s = 0 \/ fuel = 0 THEN <<>>
  ELSE <<s>> \o fwd_from(heap, heap[s].next, fuel - 1)

\* ---------------------------------------------------------------- hybrid I/O
PutBytes(d, off, bytes) ==
  LET n == MAX(Len(d), off + Len(bytes))
  IN [i \in 1..n |-> IF i > off /\ i <= off + Len(bytes) THEN bytes[i - off]
                     ELSE IF i <= Len(d) THEN d[i] ELSE 0]

Slice(d, off, len) == [i \in 1..len |-> d[off + i]]

\* positional backend: write len bytes of buf (from index bo) at off
\* (a file opened without write permission takes no write: the call fails
\* and the bytes stay)
file_write(w, buf, bo, len) ==
  IF w.ro
  THEN [w EXCEPT !.rc = "ERRNO", !.pio = @ + 1,
                 !.pb = @ \cup (w.off .. (w.off + len - 1))]
  ELSE [w EXCEPT !.data = PutBytes(w.data, w.off, Slice(buf, bo, len)),
                 !.wp = @ - len, !.off = @ + len, !.pio = @ + 1,
                 !.pb = @ \cup (w.off .. (w.off + len - 1))]

\* memcpy into the mapping of slot sl; a store into a mapping made with
\* PROT_READ alone (line 137) is a protection fault
mmap_store(w, sl, buf, bo, len, ubmode) ==
  IF sl.mm = "OK" /\ sl.prot = "r"
  THEN [w EXCEPT !.rc = "SIGSEGV", !.st = @ + len]
  ELSE IF sl.mm = "OK" /\ w.off + len <= Len(w.data)
  THEN [w EXCEPT !.data = PutBytes(w.data, w.off, Slice(buf, bo, len)),
                 !.wp = @ - len, !.off = @ + len, !.st = @ + len]
  ELSE IF ubmode = "crash"
       THEN [w EXCEPT !.rc = "SIGSEGV", !.ub = TRUE]
       ELSE [w EXCEPT !.wp = @ - len, !.off = @ + len, !.ub = TRUE]

RECURSIVE write_walk(_, _, _, _, _, _)
write_walk(heap, s, w, buf, ubmode, fuel) ==
  IF s = 0 \/ w.wp <= 0 \/ fuel = 0 \/ w.rc # "OK" THEN w
  ELSE LET sl == heap[s]
           siz == Len(buf)
       IN IF sl.len = 0 \/ w.wp + w.off <= sl.off THEN w
          ELSE LET w1 == IF sl.off > w.off
                         THEN file_write(w, buf, siz - w.wp, MIN(w.wp, sl.off - w.off))
                         ELSE w
                   w2 == IF w1.rc = "OK" /\ w1.wp > 0 /\ sl.off <= w1.off
                            /\ sl.off + sl.len > w1.off
                         THEN mmap_store(w1, sl, buf, siz - w1.wp,
                                         MIN(w1.wp, sl.off + sl.len - w1.off), ubmode)
                         ELSE w1
               IN write_walk(heap, sl.next, w2, buf, ubmode, fuel - 1)

\* lines 269-294 of _exfile_write: the interval walk and the tail
exfile_write_body(m, off, buf, ubmode) ==
  LET w0 == [data |-> m.data, off |-> off, wp |-> OffT(Len(buf)), rc |-> "OK",
             ub |-> FALSE, pio |-> 0, pb |-> {}, st |-> 0,
             ro |-> m.omode # "IWFS_OWRITE"]
      w1 == write_walk(m.heap, m.head, w0, buf, ubmode, Fuel)
      w2 == IF w1.rc = "OK" /\ w1.wp > 0
            THEN file_write(w1, buf, Len(buf) - w1.wp, w1.wp) ELSE w1
  IN [m EXCEPT !.data = w2.data, !.rc = w2.rc, !.ub = w2.ub, !.pb = w2.pb,
               !.st = w2.st,
               !.bk = @ \o [i \in 1..w2.pio |-> "write"],
               !.sp = IF w2.rc = "OK" THEN SizeT(Len(buf) - w2.wp) ELSE 0]

\* positional backend: read up to len bytes at off into out at index bo
file_read(r, data, bo, len) ==
  LET k == MAX(0, MIN(len, Len(data) - r.off))
  IN [r EXCEPT !.out = PutBytes(r.out, bo, Slice(data, r.off, k)),
               !.rp = @ - k, !.off = @ + k, !.pio = @ + 1,
               !.pb = @ \cup (r.off .. (r.off + len - 1))]

Garbage(len) == [i \in 1..len |-> -1]

mmap_load(r, data, sl, bo, len, ubmode) ==
  IF sl.mm = "OK" /\ r.off + len <= Len(data)
  THEN [r EXCEPT !.out = PutBytes(r.out, bo, Slice(data, r.off, len)),
                 !.rp = @ - len, !.off = @ + len]
  ELSE IF ubmode = "crash"
       THEN [r EXCEPT !.rc = "SIGSEGV", !.ub = TRUE]
       ELSE [r EXCEPT !.out = PutBytes(r.out, bo, Garbage(len)),
                      !.rp = @ - len, !.off = @ + len, !.ub = TRUE]

RECURSIVE read_walk(_, _, _, _, _, _, _)
read_walk(heap, s, r, data, siz, ubmode, fuel) ==
  IF s = 0 \/ r.rp <= 0 \/ fuel = 0 \/ r.rc # "OK" THEN r
  ELSE LET sl == heap[s]
       IN IF sl.len = 0 \/ r.rp + r.off <= sl.off THEN r
          ELSE LET r1 == IF sl.off > r.off
                         THEN file_read(r, data, siz - r.rp, MIN(r.rp, sl.off - r.off))
                         ELSE r
                   r2 == IF r1.rp > 0 /\ sl.off <= r1.off /\ sl.off + sl.len > r1.off
                         THEN mmap_load(r1, data, sl, siz - r1.rp,
                                        MIN(r1.rp, sl.off + sl.len - r1.off), ubmode)
                         ELSE r1
               IN read_walk(heap, sl.next, r2, data, siz, ubmode, fuel - 1)

\* _exfile_read without the walk over the slots: every byte is read through
\* the positional backend
exfile_read_backend_only(m, off, siz0, ubmode) ==
  LET end == off + siz0
      siz == IF end > m.fsize THEN m.fsize - off ELSE siz0
      r0 == [out |-> <<>>, off |-> off, rp |-> siz, rc |-> "OK", ub |-> FALSE, pio |-> 0,
             pb |-> {}]
      r2 == IF siz > 0 THEN file_read(r0, m.data, 0, siz) ELSE r0
      sp == siz - r2.rp
  IN [m EXCEPT !.rc = "OK", !.sp = sp, !.pb = r2.pb,
               !.bk = @ \o [i \in 1..r2.pio |-> "read"],
               !.out = [i \in 1..sp |-> r2.out[i]]]

exfile_read(m, off, siz0, ubmode) ==
  LET end == OffT(off + siz0)
      short == end > m.fsize
      \* rp = siz = fsize - off; a negative value leaves siz - rp = 0
      siz == IF short THEN m.fsize - off ELSE siz0
      r0 == [out |-> <<>>, off |-> off, rp |-> OffT(siz), rc |-> "OK", ub |-> FALSE,
             pio |-> 0, pb |-> {}]
      r1 == read_walk(m.heap, m.head, r0, m.data, siz, ubmode, Fuel)
      r2 == IF r1.rc = "OK" /\ r1.rp > 0
            THEN file_read(r1, m.data, siz - r1.rp, r1.rp) ELSE r1
      sp == IF r2.rc = "OK" THEN SizeT(siz - r2.rp) ELSE 0
  IN [m EXCEPT !.rc = r2.rc, !.ub = r2.ub, !.sp = sp, !.pb = r2.pb,
               !.bk = @ \o [i \in 1..r2.pio |-> "read"],
               !.out = [i \in 1..sp |-> r2.out[i]]]

\* ---------------------------------------------------------------- copy
\* the mapped path taken whatever the len of the first slot
copy_mapped_any_len(m, siz, noff) ==
  /\ m.head # 0
  /\ m.heap[m.head].mm # "NULL"
  /\ m.heap[m.head].off = 0

\* _exfile_copy takes the mapped path when the first slot starts at 0, has a
\* pointer and covers the destination range
copy_mapped(m, siz, noff) ==
  /\ m.head # 0
  /\ m.heap[m.head].mm # "NULL"
  /\ m.heap[m.head].off = 0
  /\ m.heap[m.head].len >= noff + siz

\* positional backend: in-file move of siz bytes from off to noff
file_copy(m, off, siz, noff) ==
  LET k == MAX(0, MIN(siz, Len(m.data) - off))
  IN [m EXCEPT !.data = IF k = 0 THEN @ ELSE PutBytes(@, noff, Slice(m.data, off, k)),
               !.bk = @ \o <<"copy">>, !.rc = "OK"]

\* memmove inside the mapping of the first slot
mmap_move(m, off, siz, noff, ubmode) ==
  LET sl == m.heap[m.head] IN
  IF sl.mm = "OK" /\ sl.prot = "r" /\ siz > 0
  THEN [m EXCEPT !.rc = "SIGSEGV"]
  ELSE IF sl.mm = "OK" /\ off + siz <= sl.len /\ sl.len <= Len(m.data)
  THEN [m EXCEPT !.data = PutBytes(@, noff, Slice(m.data, off, siz))]
  ELSE IF ubmode = "crash" THEN [m EXCEPT !.rc = "SIGSEGV", !.ub = TRUE]
  ELSE [m EXCEPT !.ub = TRUE]

exfile_copy_lw(m, off, siz, noff, plan, omode, maxoff, pol, ubmode) ==
  IF copy_mapped(m, siz, noff)
  THEN LET m1 == exfile_ensure_size_lw(m, noff + siz, plan, omode, maxoff, pol)
       IN IF m1.rc # "OK" THEN m1 ELSE mmap_move(m1, off, siz, noff, ubmode)
  ELSE file_copy(m, off, siz, noff)

\* ---------------------------------------------------------------- close
\* lines 423-428: every slot of the list is removed, the first error is kept
RECURSIVE close_slots(_, _, _, _)
close_slots(m, s, plan, fuel) ==
  IF s = 0 \/ fuel = 0 THEN m
  ELSE LET next == m.heap[s].next
           m1 == exfile_remove_mmap_wl(m, m.heap[s].off, plan)
       IN close_slots([m1 EXCEPT !.rc = IWRC(m1.rc, m.rc)], next, plan, fuel - 1)

\* positional backend close; it may fail like a system call
file_close(m, plan) ==
  [m EXCEPT !.n = @ + 1, !.nf = IF Failing(m, plan) THEN @ + 1 ELSE @,
            !.rc = IWRC(IF Failing(m, plan) THEN "ERRNO" ELSE "OK", m.rc),
            !.bk = @ \o <<"close">>]

\* lines 431-433: the policy is told to free its context
rspolicy_off(m, pol) ==
  [m EXCEPT !.ctx = rspolicy_call(pol, -1, m.fsize, m.ctx)[2],
            !.bk = @ \o <<"policy_off">>]

\* _exfile_close that syncs the backend before closing it
exfile_close_lw_with_sync(m, plan, pol) ==
  LET m1 == close_slots([m EXCEPT !.rc = "OK"], m.head, plan, Fuel)
  IN rspolicy_off(file_close([m1 EXCEPT !.bk = @ \o <<"sync">>], plan), pol)

exfile_close_lw(m, plan, pol) ==
  rspolicy_off(file_close(close_slots([m EXCEPT !.rc = "OK"], m.head, plan, Fuel),
                          plan), pol)

\* ---------------------------------------------------------------- lookup
\* the slot at off when it is realised, 0 otherwise (acquire_mmap, probe_mmap)
realised_slot(heap, head, off) ==
  LET s == find_slot(heap, head, off, Fuel)
  IN IF s # 0 /\ heap[s].len # 0 THEN s ELSE 0

\* _exfile_sync_mmap: the first slot at off with a usable pointer is synced
sync_mmap_rc(heap, head, off) ==
  LET s == find_slot(heap, head, off, Fuel)
  IN IF s = 0 \/ heap[s].len = 0 \/ heap[s].mm \in {"NULL", "FAILED"}
     THEN "NOT_MMAPED" ELSE "OK"

\* ---------------------------------------------------------------- state
VARIABLES fsize, data, mmslots, heap, maxoff, omode, rspolicy, rspolicy_ctx,
          closed, rdlocks, pc, registered, lastop

vars == <<fsize, data, mmslots, heap, maxoff, omode, rspolicy, rspolicy_ctx,
          closed, rdlocks, pc, registered, lastop>>

\* the fields of the instance (EXF)
impl == <<fsize, data, mmslots, heap, maxoff, omode, rspolicy, rspolicy_ctx>>

\* closed: f->impl is 0.  rdlocks[t]: how many times thread t holds the
\* instance rwlock for reading (use_locks is on).  The write lock is taken
\* and dropped inside one step, so no variable records it.
exfile_rlock(l, t) == [l EXCEPT ![t] = @ + 1]
\* _exfile_unlock that leaves the lock held
exfile_unlock_skipped(l, t) == l

exfile_unlock(l, t) == [l EXCEPT ![t] = @ - 1]

\* an unlock that leaves the lock held
exfile_unlock2_skipped(l, t) == l

exfile_unlock2(l, t) == [l EXCEPT ![t] = @ - 1]

\* a write lock granted although a thread holds the lock for reading
exfile_wlock_over_readers(l) == TRUE

\* pthread_rwlock_wrlock returns once no thread holds the lock
exfile_wlock(l) == \A u \in Threads : l[u] = 0

\* pc[t]: where thread t stands.  "idle": in no call; "write_wlock" /
\* "ensure_wlock": inside write / ensure_size, read lock dropped, write lock
\* not yet taken (a = off or sz, buf = the bytes to write).
Idle == [at |-> "idle", a |-> 0, buf |-> <<>>]

\* lastop: the call that returned last (or the half-call that parked):
\* the calling thread t, its name, arguments a, b, buf, return code rc, byte
\* count sp, bytes read out, whether it went through the write lock (up),
\* whether it called the resize policy for sizing (pol, with polreq, polcur,
\* polret), how many system calls failed in it (nf), whether it used an
\* invalid mapping (ub), its backend calls (bk), the live mappings it
\* dropped without a munmap call (lost), the file offsets it handed to the
\* positional backend (pb), its system calls (sys) and the bytes it stored, or
\* tried to store, into a mapping (st).
Op(t, op, a, b, buf, m, up) ==
  [t |-> t, op |-> op, a |-> a, b |-> b, buf |-> buf, rc |-> m.rc, sp |-> m.sp,
   out |-> m.out, up |-> up, pol |-> m.pol, polreq |-> m.polreq,
   polcur |-> m.polcur, polret |-> m.polret, nf |-> m.nf, ub |-> m.ub,
   bk |-> m.bk, lost |-> m.lost, pb |-> m.pb, sys |-> m.sys, st |-> m.st]

Mach ==
  [fsize |-> fsize, data |-> data, heap |-> heap, head |-> mmslots,
   ctx |-> rspolicy_ctx, n |-> 0, nf |-> 0, rc |-> "OK", sp |-> 0, out |-> <<>>,
   ub |-> FALSE, pol |-> FALSE, polreq |-> 0, polcur |-> 0, polret |-> 0,
   bk |-> <<>>, lost |-> 0, pb |-> {}, sys |-> <<>>, st |-> 0, omode |-> omode]

\* a call on a closed instance: the lock routine finds f->impl = 0
InvalidState(t, op, a, b, buf) ==
  /\ lastop' = Op(t, op, a, b, buf, [Mach EXCEPT !.rc = "INVALID_STATE"], FALSE)
  /\ UNCHANGED <<impl, closed, rdlocks, registered>>

Commit(m) ==
  /\ fsize' = m.fsize
  /\ data' = m.data
  /\ heap' = m.heap
  /\ mmslots' = m.head
  /\ rspolicy_ctx' = m.ctx
  /\ UNCHANGED <<maxoff, omode, rspolicy>>

\* ---------------------------------------------------------------- open
PolicyCfgs ==
  {[pol |-> "default", ctx |-> [prev_sz |-> -1, n |-> 0, dn |-> 0]],
   [pol |-> "fibo", ctx |-> [prev_sz |-> -1, n |-> 0, dn |-> 0]]}
  \cup {[pol |-> "mul", ctx |-> [prev_sz |-> -1, n |-> c[1], dn |-> c[2]]] : c \in MulCtxs}

OpenMaxoff(mo) == IF mo >= PSIZE THEN IW_ROUNDOWN(mo, PSIZE) ELSE 0

\* iwfs_exfile_open over an existing file of L zero bytes
iwfs_exfile_open(L, isz, mo, om, cfg) ==
  LET m == [fsize |-> L, data |-> Zeros(L),
            heap |-> [i \in SlotIds |-> FreeSlot], head |-> 0,
            ctx |-> cfg.ctx, n |-> 0, nf |-> 0, rc |-> "OK", sp |-> 0,
            out |-> <<>>, ub |-> FALSE, pol |-> FALSE, polreq |-> 0, polcur |-> 0,
            polret |-> 0, bk |-> <<>>, lost |-> 0,
            pb |-> {}, sys |-> <<>>, st |-> 0, omode |-> om]
  IN IF m.fsize < isz
     THEN exfile_truncate_lw(m, isz, NoFaults, om, OpenMaxoff(mo))
     ELSE IF m.fsize % PSIZE # 0
          THEN exfile_truncate_lw(m, m.fsize, NoFaults, om, OpenMaxoff(mo))
          ELSE m

OpenWith(Ls, iszs, mos, oms, cfgs) ==
  \E L \in Ls, isz \in iszs, mo \in mos, om \in oms, cfg \in cfgs :
    \E m \in {iwfs_exfile_open(L, isz, mo, om, cfg)} :
      /\ m.rc = "OK"
      /\ fsize = m.fsize
      /\ data = m.data
      /\ heap = m.heap
      /\ mmslots = m.head
      /\ rspolicy_ctx = m.ctx
      /\ maxoff = OpenMaxoff(mo)
      /\ omode = om
      /\ rspolicy = cfg.pol
      /\ closed = FALSE
      /\ rdlocks = [t \in Threads |-> 0]
      /\ pc = [t \in Threads |-> Idle]
      /\ registered = {}
      /\ lastop = Op("t1", "open", L, isz, <<>>, m, FALSE)

DefaultCfg == {c \in PolicyCfgs : c.pol = "default"}

Init == OpenWith(0..MaxFile, 0..MaxFile, MaxOffOpts,
                 {"IWFS_OWRITE", "IWFS_OREAD"}, DefaultCfg)

\* ---------------------------------------------------------------- operations
exfile_truncate(t, sz, plan) ==
  /\ pc[t].at = "idle"
  /\ IF closed THEN InvalidState(t, "truncate", sz, 0, <<>>)
     ELSE /\ exfile_wlock(rdlocks)
          /\ \E m \in {exfile_truncate_lw(Mach, sz, plan, omode, maxoff)} :
               /\ Commit(m)
               /\ lastop' = Op(t, "truncate", sz, 0, <<>>, m, TRUE)
          /\ UNCHANGED <<closed, rdlocks, registered>>
  /\ UNCHANGED pc

\* _exfile_ensure_size up to the release of the read lock
exfile_ensure_size(t, sz) ==
  /\ pc[t].at = "idle"
  /\ IF closed THEN InvalidState(t, "ensure_size", sz, 0, <<>>) /\ UNCHANGED pc
     ELSE /\ IF fsize >= sz
             THEN /\ lastop' = Op(t, "ensure_size", sz, 0, <<>>, Mach, FALSE)
                  /\ UNCHANGED pc
             ELSE /\ pc' = [pc EXCEPT ![t] = [at |-> "ensure_wlock", a |-> sz, buf |-> <<>>]]
                  /\ lastop' = Op(t, "ensure_size_rd", sz, 0, <<>>, Mach, FALSE)
          /\ rdlocks' = exfile_unlock2(exfile_rlock(rdlocks, t), t)
          /\ UNCHANGED <<impl, closed, registered>>

\* _exfile_ensure_size from the write lock on
exfile_ensure_size_wl(t, plan) ==
  /\ pc[t].at = "ensure_wlock"
  /\ IF closed THEN InvalidState(t, "ensure_size", pc[t].a, 0, <<>>)
     ELSE /\ exfile_wlock(rdlocks)
          /\ \E m \in {exfile_ensure_size_lw(Mach, pc[t].a, plan, omode, maxoff, rspolicy)} :
               /\ Commit(m)
               /\ lastop' = Op(t, "ensure_size", pc[t].a, 0, <<>>, m, TRUE)
          /\ UNCHANGED <<closed, rdlocks, registered>>
  /\ pc' = [pc EXCEPT ![t] = Idle]

\* _exfile_write on a closed instance: impl is 0 when line 254 reads
\* impl->maxoff, so the read is undefined: the call traps, or the word read
\* makes it return MAXOFF, or it goes on to the read lock, which fails
write_closed(t, off, buf, ubmode) ==
  /\ \E rc \in IF off < 0 \/ OffT(off + Len(buf)) < 0 THEN {"OUT_OF_BOUNDS"}
               ELSE IF ubmode = "crash" THEN {"SIGSEGV"}
               ELSE {"MAXOFF", "INVALID_STATE"} :
       lastop' = Op(t, "write", off, Len(buf), buf,
                    [Mach EXCEPT !.rc = rc,
                                 !.ub = ~(off < 0 \/ OffT(off + Len(buf)) < 0)],
                    FALSE)
  /\ UNCHANGED <<impl, closed, rdlocks, pc, registered>>

\* _exfile_write up to the walk (fitting write) or to the release of the
\* read lock (growing write)
exfile_write(t, off, buf, ubmode) ==
  /\ pc[t].at = "idle"
  /\ LET siz == Len(buf)
         end == OffT(off + siz)
     IN IF closed THEN write_closed(t, off, buf, ubmode)
        ELSE IF off < 0 \/ end < 0
        THEN /\ lastop' = Op(t, "write", off, siz, buf, [Mach EXCEPT !.rc = "OUT_OF_BOUNDS"], FALSE)
             /\ UNCHANGED <<impl, closed, rdlocks, pc, registered>>
        ELSE IF maxoff # 0 /\ SizeT(off + siz) > maxoff
        THEN /\ lastop' = Op(t, "write", off, siz, buf, [Mach EXCEPT !.rc = "MAXOFF"], FALSE)
             /\ UNCHANGED <<impl, closed, rdlocks, pc, registered>>
        ELSE IF end > fsize
        THEN /\ pc' = [pc EXCEPT ![t] = [at |-> "write_wlock", a |-> off, buf |-> buf]]
             /\ lastop' = Op(t, "write_rd", off, siz, buf, Mach, FALSE)
             /\ rdlocks' = exfile_unlock2(exfile_rlock(rdlocks, t), t)
             /\ UNCHANGED <<impl, closed, registered>>
        ELSE \E m \in {exfile_write_body(Mach, off, buf, ubmode)} :
               /\ Commit(m)
               /\ lastop' = Op(t, "write", off, siz, buf, m, FALSE)
               /\ rdlocks' = exfile_unlock2(exfile_rlock(rdlocks, t), t)
               /\ UNCHANGED <<closed, pc, registered>>

\* _exfile_write from the write lock on
exfile_write_wl(t, plan, ubmode) ==
  /\ pc[t].at = "write_wlock"
  /\ LET off == pc[t].a
         buf == pc[t].buf
         end == OffT(off + Len(buf))
     IN IF closed THEN InvalidState(t, "write", off, Len(buf), buf)
        ELSE /\ exfile_wlock(rdlocks)
             /\ \E m1 \in {IF end > fsize
                            THEN exfile_ensure_size_lw(Mach, end, plan, omode, maxoff, rspolicy)
                            ELSE Mach} :
                  \E m2 \in {IF m1.rc = "OK" THEN exfile_write_body(m1, off, buf, ubmode)
                              ELSE m1} :
                    /\ Commit(m2)
                    /\ lastop' = Op(t, "write", off, Len(buf), buf, m2, TRUE)
             /\ UNCHANGED <<closed, rdlocks, registered>>
  /\ pc' = [pc EXCEPT ![t] = Idle]

exfile_read_op(t, off, siz, ubmode) ==
  /\ pc[t].at = "idle"
  /\ \E m \in {IF off < 0 \/ OffT(off + siz) < 0
                 THEN [Mach EXCEPT !.rc = "OUT_OF_BOUNDS"]
                 ELSE IF closed THEN [Mach EXCEPT !.rc = "INVALID_STATE"]
                 ELSE exfile_read(Mach, off, siz, ubmode)} :
       lastop' = Op(t, "read", off, siz, <<>>, m, FALSE)
  /\ rdlocks' = IF closed \/ off < 0 \/ OffT(off + siz) < 0 THEN rdlocks
                ELSE exfile_unlock2(exfile_rlock(rdlocks, t), t)
  /\ UNCHANGED <<impl, closed, pc, registered>>

\* _exfile_read up to the call of pthread_rwlock_rdlock inside _exfile_rlock
\* (line 80): the bounds are tested, f->impl was found set at line 77, and
\* the thread asks for the lock, which a closing thread may hold
exfile_read_rlock(t, off, siz) ==
  /\ pc[t].at = "idle"
  /\ IF off < 0 \/ OffT(off + siz) < 0
     THEN /\ lastop' = Op(t, "read", off, siz, <<>>, [Mach EXCEPT !.rc = "OUT_OF_BOUNDS"], FALSE)
          /\ UNCHANGED pc
     ELSE IF closed
     THEN /\ lastop' = Op(t, "read", off, siz, <<>>, [Mach EXCEPT !.rc = "INVALID_STATE"], FALSE)
          /\ UNCHANGED pc
     ELSE /\ lastop' = Op(t, "read_rl", off, siz, <<>>, Mach, FALSE)
          /\ pc' = [pc EXCEPT ![t] = [at |-> "read_rlock", a |-> off, buf |-> <<>>,
                                      b |-> siz]]
  /\ UNCHANGED <<impl, closed, rdlocks, registered>>

\* _exfile_read from the return of pthread_rwlock_rdlock on.  If the instance
\* was closed meanwhile, the lock the thread waits on is destroyed and freed
\* (lines 434-436) and f->impl is 0 (line 430): the behaviour is undefined,
\* a trap at the latest where impl->mmslots is read (line 317), or an error
\* of the lock routine.
exfile_read_locked(t, ubmode) ==
  /\ pc[t].at = "read_rlock"
  /\ \E m \in {IF closed
                 THEN [Mach EXCEPT !.ub = TRUE,
                                   !.rc = IF ubmode = "crash" THEN "SIGSEGV"
                                          ELSE "THREADING_ERRNO"]
                 ELSE exfile_read(Mach, pc[t].a, pc[t].b, ubmode)} :
       lastop' = Op(t, "read", pc[t].a, pc[t].b, <<>>, m, FALSE)
  /\ rdlocks' = IF closed THEN rdlocks
                ELSE exfile_unlock2(exfile_rlock(rdlocks, t), t)
  /\ pc' = [pc EXCEPT ![t] = Idle]
  /\ UNCHANGED <<impl, closed, registered>>

Count == Cardinality(registered)

exfile_add_mmap_op(t, off, maxlen, plan) ==
  /\ pc[t].at = "idle"
  /\ IF closed THEN InvalidState(t, "add_mmap", off, maxlen, <<>>)
     ELSE /\ exfile_wlock(rdlocks)
          /\ \E m \in {exfile_add_mmap(Mach, off, maxlen, plan, omode)} :
               /\ m.rc = "OK" => Count < MaxSlots
               /\ Commit(m)
               /\ registered' = IF m.rc = "OK"
                                THEN registered \cup {<<off, AdjMaxlen(off, maxlen)>>}
                                ELSE registered
               /\ lastop' = Op(t, "add_mmap", off, maxlen, <<>>, m, TRUE)
          /\ UNCHANGED <<closed, rdlocks>>
  /\ UNCHANGED pc

exfile_remove_mmap(t, off, plan) ==
  /\ pc[t].at = "idle"
  /\ IF closed THEN InvalidState(t, "remove_mmap", off, 0, <<>>)
     ELSE /\ exfile_wlock(rdlocks)
          /\ \E m \in {exfile_remove_mmap_wl(Mach, off, plan)} :
               /\ Commit(m)
               /\ registered' = {r \in registered : r[1] # off}
               /\ lastop' = Op(t, "remove_mmap", off, 0, <<>>, m, TRUE)
          /\ UNCHANGED <<closed, rdlocks>>
  /\ UNCHANGED pc

\* _exfile_acquire_mmap: the read lock is kept on both returns
exfile_acquire_mmap(t, off) ==
  /\ pc[t].at = "idle"
  /\ IF closed THEN InvalidState(t, "acquire_mmap", off, 0, <<>>)
     ELSE /\ rdlocks[t] < MaxHold
          /\ \E s \in {realised_slot(heap, mmslots, off)} :
               lastop' = Op(t, "acquire_mmap", off, 0, <<>>,
                            [Mach EXCEPT !.rc = IF s # 0 THEN "OK" ELSE "NOT_MMAPED",
                                         !.sp = IF s # 0 THEN heap[s].len ELSE 0],
                            FALSE)
          /\ rdlocks' = exfile_rlock(rdlocks, t)
          /\ UNCHANGED <<impl, closed, registered>>
  /\ UNCHANGED pc

\* _exfile_release_mmap, called by a thread that holds the read lock
\* _exfile_release_mmap returning without the unlock
exfile_release_mmap_no_unlock(t) ==
  /\ pc[t].at = "idle"
  /\ IF closed THEN InvalidState(t, "release_mmap", 0, 0, <<>>)
     ELSE /\ rdlocks[t] > 0
          /\ lastop' = Op(t, "release_mmap", 0, 0, <<>>, Mach, FALSE)
          /\ UNCHANGED <<impl, closed, rdlocks, registered>>
  /\ UNCHANGED pc

exfile_release_mmap(t) ==
  /\ pc[t].at = "idle"
  /\ IF closed THEN InvalidState(t, "release_mmap", 0, 0, <<>>)
     ELSE /\ rdlocks[t] > 0
          /\ lastop' = Op(t, "release_mmap", 0, 0, <<>>, Mach, FALSE)
          /\ rdlocks' = exfile_unlock(rdlocks, t)
          /\ UNCHANGED <<impl, closed, registered>>
  /\ UNCHANGED pc

exfile_probe_mmap(t, off) ==
  /\ pc[t].at = "idle"
  /\ IF closed THEN InvalidState(t, "probe_mmap", off, 0, <<>>)
     ELSE /\ \E s \in {realised_slot(heap, mmslots, off)} :
               lastop' = Op(t, "probe_mmap", off, 0, <<>>,
                            [Mach EXCEPT !.rc = IF s # 0 THEN "OK" ELSE "NOT_MMAPED",
                                         !.sp = IF s # 0 THEN heap[s].len ELSE 0],
                            FALSE)
          /\ rdlocks' = exfile_unlock2(exfile_rlock(rdlocks, t), t)
          /\ UNCHANGED <<impl, closed, registered>>
  /\ UNCHANGED pc

\* _exfile_copy: the whole call runs under the read lock; when the size
\* routine fails on the mapped path the call returns without unlocking
exfile_copy(t, off, siz, noff, plan, ubmode) ==
  /\ pc[t].at = "idle"
  /\ IF closed THEN InvalidState(t, "copy", off, siz, <<noff>>)
     ELSE /\ \E m \in {exfile_copy_lw(Mach, off, siz, noff, plan, omode, maxoff,
                                      rspolicy, ubmode)} :
               /\ Commit(m)
               /\ lastop' = Op(t, "copy", off, siz, <<noff>>, m, FALSE)
               /\ rdlocks' = IF copy_mapped(Mach, siz, noff) /\ m.rc # "OK" /\ ~m.ub
                             THEN exfile_rlock(rdlocks, t)
                             ELSE exfile_unlock(exfile_rlock(rdlocks, t), t)
          /\ UNCHANGED <<closed, registered>>
  /\ UNCHANGED pc

\* _exfile_close: a second close returns 0 at line 417
exfile_close(t, plan) ==
  /\ pc[t].at = "idle"
  /\ IF closed
     THEN /\ lastop' = Op(t, "close", 0, 0, <<>>, Mach, FALSE)
          /\ UNCHANGED <<impl, closed, rdlocks, registered>>
     ELSE /\ exfile_wlock(rdlocks)
          /\ \E m \in {exfile_close_lw(Mach, plan, rspolicy)} :
               /\ Commit(m)
               /\ lastop' = Op(t, "close", 0, 0, <<>>, m, TRUE)
          /\ closed' = TRUE
          /\ registered' = {}
          /\ UNCHANGED rdlocks
  /\ UNCHANGED pc

\* _exfile_sync: msync of every slot with a pointer, then the backend's sync
exfile_sync(t) ==
  /\ pc[t].at = "idle"
  /\ IF closed THEN InvalidState(t, "sync", 0, 0, <<>>)
     ELSE /\ lastop' = Op(t, "sync", 0, 0, <<>>, [Mach EXCEPT !.bk = <<"sync">>], FALSE)
          /\ rdlocks' = exfile_unlock2(exfile_rlock(rdlocks, t), t)
          /\ UNCHANGED <<impl, closed, registered>>
  /\ UNCHANGED pc

exfile_state(t) ==
  /\ pc[t].at = "idle"
  /\ IF closed THEN InvalidState(t, "state", 0, 0, <<>>)
     ELSE /\ lastop' = Op(t, "state", 0, 0, <<>>,
                         [Mach EXCEPT !.bk = <<"state">>, !.out = <<fsize>>], FALSE)
          /\ rdlocks' = exfile_unlock(exfile_rlock(rdlocks, t), t)
          /\ UNCHANGED <<impl, closed, registered>>
  /\ UNCHANGED pc

exfile_sync_mmap(t, off) ==
  /\ pc[t].at = "idle"
  /\ IF closed THEN InvalidState(t, "sync_mmap", off, 0, <<>>)
     ELSE /\ lastop' = Op(t, "sync_mmap", off, 0, <<>>,
                         [Mach EXCEPT !.rc = sync_mmap_rc(heap, mmslots, off)], FALSE)
          /\ rdlocks' = exfile_unlock(exfile_rlock(rdlocks, t), t)
          /\ UNCHANGED <<impl, closed, registered>>
  /\ UNCHANGED pc

\* ---------------------------------------------------------------- fault plans
\* The plans worth trying for a call: the empty plan, and every plan that
\* fails one more system call among those the call issues after the plan's
\* last failure (Run(p) is the number of system calls issued under plan p).
MaxOf(p) == IF p = {} THEN 0 ELSE CHOOSE k \in p : \A j \in p : j <= k
MorePlans(Run(_), P) == UNION {{p \cup {k} : k \in (MaxOf(p) + 1)..Run(p)} : p \in P}
PlansOf(Run(_)) ==
  LET P0 == {NoFaults}
      P1 == MorePlans(Run, P0)
      P2 == MorePlans(Run, P1)
      P3 == MorePlans(Run, P2)
  IN P0 \cup (IF MaxFaults >= 1 THEN P1 ELSE {})
        \cup (IF MaxFaults >= 2 THEN P2 ELSE {})
        \cup (IF MaxFaults >= 3 THEN P3 ELSE {})

\* ---------------------------------------------------------------- inputs
Sizes == 0..MaxFile
AddArgs == {<<0, 1>>, <<0, 2 * PSIZE>>, <<PSIZE, PSIZE>>, <<2 * PSIZE, PSIZE>>,
            <<OFF_T_MAX - 3, 2 * PSIZE>>, <<1, PSIZE>>, <<0, 0>>}
RemoveOffs == {0, PSIZE, 2 * PSIZE, 3 * PSIZE, OFF_T_MAX - 3}
ZeroBufs == {Zeros(n) : n \in 0..MaxLen}
UbModes == {"crash", "stray"}

TruncRun(sz, p) == exfile_truncate_lw(Mach, sz, p, omode, maxoff).n
EnsureRun(sz, p) == exfile_ensure_size_lw(Mach, sz, p, omode, maxoff, rspolicy).n
AddRun(off, maxlen, p) == exfile_add_mmap(Mach, off, maxlen, p, omode).n
RemoveRun(off, p) == exfile_remove_mmap_wl(Mach, off, p).n
CopyRun(a, p) == exfile_copy_lw(Mach, a[1], a[2], a[3], p, omode, maxoff, rspolicy, "crash").n
CloseRun(p) == exfile_close_lw(Mach, p, rspolicy).n

Truncate(t, szs) ==
  \E sz \in szs :
    LET Run(p) == TruncRun(sz, p) IN
      \E plan \in PlansOf(Run) : exfile_truncate(t, sz, plan)

EnsureSize(t, szs) == \E sz \in szs : exfile_ensure_size(t, sz)

EnsureSizeWl(t) ==
  /\ pc[t].at = "ensure_wlock"
  /\ LET Run(p) == EnsureRun(pc[t].a, p) IN
       \E plan \in PlansOf(Run) : exfile_ensure_size_wl(t, plan)

Write(t, offs, bufs) ==
  \E off \in offs, buf \in bufs, u \in UbModes : exfile_write(t, off, buf, u)

WriteWl(t) ==
  /\ pc[t].at = "write_wlock"
  /\ LET Run(p) == EnsureRun(OffT(pc[t].a + Len(pc[t].buf)), p) IN
       \E plan \in PlansOf(Run), u \in UbModes : exfile_write_wl(t, plan, u)

Read(t, offs, sizs) ==
  \E off \in offs, siz \in sizs, u \in UbModes : exfile_read_op(t, off, siz, u)

AddMmap(t, args) ==
  \E a \in args :
    LET Run(p) == AddRun(a[1], a[2], p) IN
      \E plan \in PlansOf(Run) : exfile_add_mmap_op(t, a[1], a[2], plan)

RemoveMmap(t, offs) ==
  \E off \in offs :
    LET Run(p) == RemoveRun(off, p) IN
      \E plan \in PlansOf(Run) : exfile_remove_mmap(t, off, plan)

Copy(t, args) ==
  \E a \in args :
    LET Run(p) == CopyRun(a, p) IN
      \E plan \in PlansOf(Run), u \in UbModes :
        exfile_copy(t, a[1], a[2], a[3], plan, u)

Close(t) ==
  LET Run(p) == CloseRun(p) IN
    \E plan \in PlansOf(Run) : exfile_close(t, plan)

ReadRlock(t, offs, sizs) ==
  \E off \in offs, siz \in sizs : exfile_read_rlock(t, off, siz)

ReadLocked(t) == \E u \in UbModes : exfile_read_locked(t, u)

AcquireMmap(t, offs) == \E off \in offs : exfile_acquire_mmap(t, off)
ReleaseMmap(t) == exfile_release_mmap(t)
ProbeMmap(t, offs) == \E off \in offs : exfile_probe_mmap(t, off)
SyncMmap(t, offs) == \E off \in offs : exfile_sync_mmap(t, off)

\* ---------------------------------------------------------------- Spec
\* Sizing: one thread, the default policy, up to two slots inside the file,
\* failing system calls.
SizeArgs == {<<0, 1>>, <<PSIZE, PSIZE>>, <<0, 2 * PSIZE>>}

Next ==
  \/ Truncate("t1", Sizes)
  \/ EnsureSize("t1", Sizes)
  \/ EnsureSizeWl("t1")
  \/ Write("t1", {0, MaxFile}, {Zeros(1)})
  \/ WriteWl("t1")
  \/ AddMmap("t1", SizeArgs)
  \/ RemoveMmap("t1", {0, PSIZE})

Spec == Init /\ [][Next]_vars

\* ---------------------------------------------------------------- SpecList
\* The slot registry: add_mmap and remove_mmap over a file of fixed size.
InitList == OpenWith({0, 2 * PSIZE}, {0}, {0}, {"IWFS_OWRITE"}, DefaultCfg)

NextList ==
  \/ AddMmap("t1", AddArgs)
  \/ RemoveMmap("t1", RemoveOffs)

SpecList == InitList /\ [][NextList]_vars

\* ---------------------------------------------------------------- SpecRW
\* Hybrid I/O: a byte pattern written and read back, by the writing thread
\* and by another one, over a file of whole pages with up to two slots,
\* while truncate may meet failing system calls.
Pattern(n) == [i \in 1..n |-> i]
RWArgs == {<<0, PSIZE>>, <<2 * PSIZE, PSIZE>>}
RWOffs == {0, PSIZE - 1}
RWSizes == {0, 2 * PSIZE}

InitRW == OpenWith({0, 2 * PSIZE}, {0}, {0}, {"IWFS_OWRITE"}, DefaultCfg)

NextRW ==
  \/ Truncate("t1", RWSizes)
  \/ AddMmap("t1", RWArgs)
  \/ Write("t1", RWOffs, {Pattern(MaxLen)})
  \/ WriteWl("t1")
  \/ Read("t1", RWOffs, {MaxLen})
  \/ Read("t2", RWOffs, {MaxLen})

SpecRW == InitRW /\ [][NextRW]_vars

\* ---------------------------------------------------------------- SpecPol
\* The resize policies under a ceiling: writes and ensure_size on a file
\* opened below maxoff, with each built-in policy.
PolMaxoff == 2 * PSIZE
PolOffs == 0..(PolMaxoff + 1)
PolSizes == {PSIZE + 1, PolMaxoff, PolMaxoff + 1}

InitPol == OpenWith({0, PSIZE}, {0}, {PolMaxoff + 1}, {"IWFS_OWRITE"}, PolicyCfgs)

NextPol ==
  \/ Write("t1", PolOffs, ZeroBufs)
  \/ WriteWl("t1")
  \/ EnsureSize("t1", PolSizes)
  \/ EnsureSizeWl("t1")

SpecPol == InitPol /\ [][NextPol]_vars

\* ---------------------------------------------------------------- SpecMT
\* Two threads growing the same file: either may drop the read lock, and
\* the other may grow or cut the file before the first takes the write lock.
MTSizes == {PSIZE, 2 * PSIZE}
MTCfgs == {c \in PolicyCfgs : c.pol \in {"default", "fibo"}}

InitMT == OpenWith({0}, {0}, {0}, {"IWFS_OWRITE"}, MTCfgs)

NextMT ==
  \E t \in Threads :
    \/ EnsureSize(t, MTSizes)
    \/ EnsureSizeWl(t)
    \/ Write(t, {0, PSIZE}, {Zeros(PSIZE)})
    \/ WriteWl(t)
    \/ Truncate(t, {0})

SpecMT == InitMT /\ [][NextMT]_vars

\* ---------------------------------------------------------------- SpecFibo
\* The fibonacci policy over a run of growing calls, up to the end of the
\* offset domain, with no ceiling.
FiboSizes == {PSIZE + 1, 2 * PSIZE + 1, 4 * PSIZE + 1, OFF_T_MAX}
FiboCfg == {c \in PolicyCfgs : c.pol = "fibo"}

InitFibo == OpenWith({0, PSIZE}, {0}, {0}, {"IWFS_OWRITE"}, FiboCfg)

NextFibo ==
  \/ EnsureSize("t1", FiboSizes)
  \/ EnsureSizeWl("t1")
  \/ Write("t1", {PSIZE, 3 * PSIZE}, {Zeros(1)})
  \/ WriteWl("t1")

SpecFibo == InitFibo /\ [][NextFibo]_vars

\* ---------------------------------------------------------------- SpecRO
\* An instance opened without write permission, with and without a ceiling,
\* under each built-in policy: the calls that would grow the file, reads at
\* and past the end, and slots over the file.
ROMaxoff == {0, 2 * PSIZE + 1}
ROSizes == {PSIZE - 1, 2 * PSIZE, 3 * PSIZE}

InitRO == OpenWith({0, PSIZE, 2 * PSIZE}, {0}, ROMaxoff, {"IWFS_OREAD"}, PolicyCfgs)

NextRO ==
  \/ Truncate("t1", ROSizes)
  \/ EnsureSize("t1", ROSizes)
  \/ EnsureSizeWl("t1")
  \/ Write("t1", {0, PSIZE, 2 * PSIZE}, {Pattern(1), Pattern(PSIZE + 1)})
  \/ WriteWl("t1")
  \/ Read("t1", {0, PSIZE, 2 * PSIZE + 1}, {1})
  \/ AddMmap("t1", {<<0, PSIZE>>})

SpecRO == InitRO /\ [][NextRO]_vars

\* ---------------------------------------------------------------- SpecLk
\* Two threads over one instance and its whole facade: a thread holds the
\* pointer of acquire_mmap while the other resizes, remaps, copies, syncs
\* and closes; system calls and the backend's close may fail.
LkArgs == {<<0, 2 * PSIZE>>}
LkCopies == {<<0, PSIZE, PSIZE>>}
LkSizes == {0, 2 * PSIZE}

InitLk == OpenWith({PSIZE}, {0}, {0}, {"IWFS_OWRITE"}, DefaultCfg)

NextLk ==
  \E t \in Threads :
    \/ AcquireMmap(t, {0})
    \/ ReleaseMmap(t)
    \/ ProbeMmap(t, {0})
    \/ SyncMmap(t, {0})
    \/ exfile_sync(t)
    \/ exfile_state(t)
    \/ Truncate(t, LkSizes)
    \/ EnsureSize(t, {2 * PSIZE})
    \/ EnsureSizeWl(t)
    \/ Write(t, {PSIZE}, {Pattern(PSIZE)})
    \/ WriteWl(t)
    \/ Read(t, {PSIZE}, {PSIZE})
    \/ AddMmap(t, LkArgs)
    \/ RemoveMmap(t, {0})
    \/ Copy(t, LkCopies)
    \/ Close(t)

SpecLk == InitLk /\ [][NextLk]_vars

\* ---------------------------------------------------------------- SpecClose
\* Two threads, one of which may close the instance while the other is
\* inside read, between the test of f->impl and the return of the lock call.
NextClose ==
  \E t \in Threads :
    \/ ReadRlock(t, {0}, {PSIZE})
    \/ ReadLocked(t)
    \/ Truncate(t, LkSizes)
    \/ AddMmap(t, LkArgs)
    \/ RemoveMmap(t, {0})
    \/ Close(t)

SpecClose == InitLk /\ [][NextClose]_vars

\* ---------------------------------------------------------------- SpecCopy
\* copy in both directions over a file of two pages whose first slot covers
\* one page or both.
CopyArgs == {<<0, PSIZE>>, <<0, 2 * PSIZE>>}
CopyMoves == {<<0, PSIZE, PSIZE>>, <<PSIZE, PSIZE, 0>>, <<1, 1, 0>>}

InitCopy == OpenWith({2 * PSIZE}, {0}, {0}, {"IWFS_OWRITE"}, DefaultCfg)

NextCopy ==
  \/ AddMmap("t1", CopyArgs)
  \/ RemoveMmap("t1", {0})
  \/ Truncate("t1", {PSIZE, 2 * PSIZE})
  \/ Write("t1", {0}, {Pattern(2 * PSIZE)})
  \/ Read("t1", {0}, {2 * PSIZE})
  \/ Copy("t1", CopyMoves)

SpecCopy == InitCopy /\ [][NextCopy]_vars

\* ---------------------------------------------------------------- SpecLive
\* Two threads under the client's discipline for held mappings: a thread
\* that holds the read lock of acquire_mmap calls release_mmap next, and it
\* does so eventually.  The lock is fair: a thread waiting for the write
\* lock gets it if the lock is free again and again.
NextLive ==
  \E t \in Threads :
    \/ ReleaseMmap(t)
    \/ EnsureSizeWl(t)
    \/ WriteWl(t)
    \/ /\ rdlocks[t] = 0
       /\ \/ AcquireMmap(t, {0})
          \/ ProbeMmap(t, {0})
          \/ exfile_sync(t)
          \/ Truncate(t, LkSizes)
          \/ EnsureSize(t, {2 * PSIZE})
          \/ Write(t, {PSIZE}, {Pattern(PSIZE)})
          \/ Read(t, {PSIZE}, {PSIZE})
          \/ AddMmap(t, LkArgs)
          \/ RemoveMmap(t, {0})

\* thread t waits in _exfile_wlock and can have its answer now: the lock, or
\* INVALID_STATE on a closed instance
wlock_free(t) ==
  /\ pc[t].at \in {"write_wlock", "ensure_wlock"}
  /\ closed \/ exfile_wlock(rdlocks)

\* strong fairness of the waiting calls, with their enabling condition
\* written out
LiveFair ==
  \A t \in Threads :
    /\ WF_vars(ReleaseMmap(t))
    /\ \/ <>[]~wlock_free(t)
       \/ []<><<EnsureSizeWl(t) \/ WriteWl(t)>>_vars

SpecLive == InitLk /\ [][NextLive]_vars /\ LiveFair

\* ---------------------------------------------------------------- SpecOOB
\* Reads and writes over the whole range of off_t and size_t, on a file with
\* and without a ceiling.
OOBOffs == {-1, 0, 1, PSIZE + 1, OFF_T_MAX}
OOBSizes == {0, 1, OFF_T_MAX, OFF_T_MAX + 1, SIZE_T_MAX - 1, SIZE_T_MAX}
OOBMaxoff == {0, 3 * PSIZE}

InitOOB == OpenWith({0, 2 * PSIZE}, {0}, OOBMaxoff, {"IWFS_OWRITE"}, DefaultCfg)

NextOOB ==
  \/ Write("t1", OOBOffs, {Zeros(n) : n \in OOBSizes})
  \/ WriteWl("t1")
  \/ Read("t1", OOBOffs, OOBSizes)
  \/ AddMmap("t1", {<<0, PSIZE>>})

SpecOOB == InitOOB /\ [][NextOOB]_vars

\* ================================================================ claims
\* the registered slots: the cells of the heap in use
Slots == {i \in SlotIds : heap[i].used}

\* C1: fsize is a multiple of psize, and so is the on-disk file length, for
\* every opened instance and after every call.
C1_PageMultiple == fsize % PSIZE = 0 /\ Len(data) % PSIZE = 0

\* the slots met by forward traversal from the head, and a slot's range
SlotList == fwd_from(heap, mmslots, Fuel)
SlotRange(i) == <<heap[i].off, heap[i].maxlen>>

\* C2: after any sequence of add_mmap and remove_mmap calls, failing ones
\* included, forward traversal from the head visits exactly the registered
\* slots, each once, in strictly ascending off, and adjacent slots a, b
\* satisfy a.off + a.maxlen <= b.off.
C2_SortedDisjoint ==
  LET l == SlotList IN
    /\ Len(l) = Cardinality(registered)
    /\ {l[k] : k \in 1..Len(l)} = Slots
    /\ {SlotRange(l[k]) : k \in 1..Len(l)} = registered
    /\ \A k \in 1..(Len(l) - 1) :
         /\ heap[l[k]].off < heap[l[k + 1]].off
         /\ heap[l[k]].off + heap[l[k]].maxlen <= heap[l[k + 1]].off

\* a successful add_mmap has put a slot between two others
C2_Witness ==
  /\ lastop.op = "add_mmap" /\ lastop.rc = "OK" /\ lastop.a = PSIZE
  /\ Cardinality(registered) = MaxSlots
  /\ \E r \in registered : r[1] < PSIZE

\* C3: outside critical sections every registered slot has
\* len = min(maxlen, max(0, fsize - off)), also after calls that failed.
C3_SlotLen ==
  \A i \in Slots : heap[i].len = MIN(heap[i].maxlen, MAX(0, fsize - heap[i].off))

\* C4: with a nonzero effective maxoff, fsize <= maxoff in every state from
\* open on.
C4_MaxOff == maxoff # 0 => fsize <= maxoff

\* the size a write or ensure_size call asks the file to have
Requested(op) == IF op.op = "write" THEN op.a + op.b ELSE op.a

\* C8: the resize policy is called for sizing only under the write lock and
\* only when fsize is below the requested size there; an ensure_size(s) right
\* after a successful ensure_size(s) does not call it; a thread that took
\* the write lock and finds the file already grown neither calls the policy
\* nor changes the size of the file.
C8_PolicyUnderWriteLock ==
  [][/\ lastop'.pol =>
          /\ lastop'.up
          /\ lastop'.op \in {"write", "ensure_size"}
          /\ lastop'.polcur = fsize
          /\ lastop'.polreq = Requested(lastop')
          /\ fsize < lastop'.polreq
     /\ (/\ lastop.op = "ensure_size" /\ lastop.rc = "OK"
         /\ lastop'.op \in {"ensure_size", "ensure_size_rd"}
         /\ lastop'.a = lastop.a)
        => (lastop'.op = "ensure_size" /\ ~lastop'.pol)
     /\ (/\ lastop'.up /\ lastop'.op \in {"write", "ensure_size"}
         /\ fsize >= Requested(lastop'))
        => /\ ~lastop'.pol
           /\ fsize' = fsize /\ Len(data') = Len(data)]_vars

\* a growing write took the write lock and found the file already grown
C8_Witness ==
  /\ lastop.op = "write" /\ lastop.up /\ ~lastop.pol /\ lastop.rc = "OK"
  /\ lastop.a = PSIZE /\ fsize = 2 * PSIZE

\* C9: on a writable instance with a nonzero maxoff and a built-in policy
\* (the multiplier with n >= dn > 0), a write ending exactly at maxoff
\* succeeds with all its bytes written and fsize <= maxoff, and a write
\* ending at maxoff + 1 fails with MAXOFF (no system call failing).
C9_WriteAtMaxoff ==
  (/\ lastop.op = "write" /\ lastop.nf = 0
   /\ maxoff # 0 /\ omode = "IWFS_OWRITE"
   /\ rspolicy = "mul" => (rspolicy_ctx.dn > 0 /\ rspolicy_ctx.n >= rspolicy_ctx.dn))
  => /\ lastop.a + lastop.b = maxoff
          => (lastop.rc = "OK" /\ lastop.sp = lastop.b /\ fsize <= maxoff)
     /\ lastop.a + lastop.b = maxoff + 1 => lastop.rc = "MAXOFF"

\* some byte of [off, off + len) lies in the range of a registered slot
Intersects(off, len, R) ==
  \E r \in R : \E x \in off..(off + len - 1) : r[1] <= x /\ x < r[1] + r[2]

\* an add_mmap call with a page-aligned off and a nonzero adjusted maxlen
AddCall == /\ lastop'.op = "add_mmap"
           /\ lastop'.a % PSIZE = 0
           /\ AdjMaxlen(lastop'.a, lastop'.b) # 0
AddHits == Intersects(lastop'.a, AdjMaxlen(lastop'.a, lastop'.b), registered)
RegistryKept == registered' = registered /\ SlotList' = SlotList

C5_FlatArray ==
  [][lastop'.op = "read" =>
       /\ lastop'.rc = "OK"
       /\ lastop'.sp = MIN(lastop'.b, MAX(0, fsize - lastop'.a))
       /\ Len(lastop'.out) = lastop'.sp
       /\ (/\ lastop.op = "write" /\ lastop.rc = "OK"
           /\ lastop.a = lastop'.a /\ lastop.b = lastop'.b)
          => lastop'.out = lastop.buf]_vars

\* C6: a truncate(x) that succeeds leaves fsize = round_up(x, psize); one that
\* fails leaves fsize as it was before the call.
C6_Truncate ==
  [][lastop'.op = "truncate" =>
       IF lastop'.rc = "OK" THEN fsize' = IW_ROUNDUP(lastop'.a, PSIZE)
       ELSE fsize' = fsize]_vars

\* C7: after a successful open of a file of length L, fsize is
\* round_up(initial_size, psize) when L < initial_size and round_up(L, psize)
\* otherwise.
C7_OpenSize ==
  lastop.op = "open" =>
    fsize = IF lastop.a < lastop.b THEN IW_ROUNDUP(lastop.b, PSIZE)
            ELSE IW_ROUNDUP(lastop.a, PSIZE)

\* C19: for a valid context (dn > 0, n >= dn) the rational-multiplier policy
\* returns round_up(req * n / dn, psize), which is at least req and a whole
\* number of pages, so the call that asked for it never fails with
\* RESIZE_POLICY_FAIL.
C19_MulPolicy ==
  [][(lastop'.pol /\ rspolicy = "mul"
        /\ rspolicy_ctx.dn > 0 /\ rspolicy_ctx.n >= rspolicy_ctx.dn)
     => /\ lastop'.polret =
             IW_ROUNDUP((lastop'.polreq * rspolicy_ctx.n) \div rspolicy_ctx.dn, PSIZE)
        /\ lastop'.polret >= lastop'.polreq
        /\ lastop'.polret % PSIZE = 0
        /\ lastop'.rc # "RESIZE_POLICY_FAIL"]_vars

\* prev_sz as the fibonacci policy reads it: 0 before its first call
FiboPrev == IF rspolicy_ctx.prev_sz = -1 THEN 0 ELSE rspolicy_ctx.prev_sz
FiboNext == IW_ROUNDUP(MAX(lastop'.polreq, lastop'.polcur + FiboPrev), PSIZE)
FiboCall == lastop'.pol /\ rspolicy = "fibo"

Grows ==
  /\ lastop'.op \in {"truncate", "ensure_size", "write"}
  /\ Requested(lastop') > fsize
SizeKept == fsize' = fsize /\ heap' = heap /\ mmslots' = mmslots
ReadAtEnd == lastop'.op = "read" /\ lastop'.a >= fsize

Parked == {"write_wlock", "ensure_wlock"}

\* C11: while a thread holds the read lock of acquire_mmap, no step of
\* another thread changes fsize, the slot list or any slot's len or pointer.
C11_HeldMapping ==
  [][\A t \in Threads :
       (rdlocks[t] > 0 /\ rdlocks'[t] > 0 /\ lastop'.t # t)
         => UNCHANGED <<fsize, heap, mmslots>>]_vars

\* a thread holds a realised slot while the other waits to grow the file
C11_Witness ==
  /\ rdlocks["t1"] > 0 /\ realised_slot(heap, mmslots, 0) # 0
  /\ pc["t2"].at = "write_wlock"
  /\ lastop.t = "t2"

\* C12: fsize, the slot list, every slot's len and pointer and the policy
\* context change, and the policy is called, only in a call that holds the
\* write lock; copy changes none of them and never calls the policy.
C12_WriteLockOnly ==
  [][/\ (\/ fsize' # fsize \/ heap' # heap \/ mmslots' # mmslots
          \/ rspolicy_ctx' # rspolicy_ctx \/ lastop'.pol) => lastop'.up
     /\ lastop'.op = "copy" =>
          /\ UNCHANGED <<fsize, heap, mmslots, rspolicy_ctx>>
          /\ ~lastop'.pol /\ ~lastop'.up]_vars

\* a copy through the mapping of the first slot has run
C12_Witness ==
  /\ lastop.op = "copy" /\ lastop.rc = "OK" /\ lastop.bk = <<>>
  /\ copy_mapped(Mach, lastop.b, lastop.buf[1])

\* C13: a write or ensure_size that goes for the write lock holds, when it
\* asks for it, no read lock beyond those the thread held before the call.
C13_NoUpgradeWithReadLock ==
  [][\A t \in Threads :
       (pc[t].at = "idle" /\ pc'[t].at \in Parked) => rdlocks'[t] = rdlocks[t]]_vars

\* both threads wait for the write lock, neither holds the lock
C13_Witness ==
  /\ pc["t1"].at = "ensure_wlock" /\ pc["t2"].at = "write_wlock"
  /\ \A t \in Threads : rdlocks[t] = 0

\* C14: a read by another thread that follows a successful growing write W
\* and sees the grown fsize returns W's bytes for the part of W's range it
\* covers.
C14_GrownThenRead ==
  [][(/\ lastop.op = "write" /\ lastop.rc = "OK" /\ lastop.up /\ lastop.pol
      /\ lastop'.op = "read" /\ lastop'.t # lastop.t
      /\ lastop'.a + lastop'.b <= fsize)
     => /\ lastop'.rc = "OK"
        /\ lastop'.sp = lastop'.b
        /\ \A i \in 1..lastop'.sp :
             LET k == lastop'.a + i - lastop.a
             IN (k >= 1 /\ k <= lastop.b) => lastop'.out[i] = lastop.buf[k]]_vars

\* the calls to the positional backend among the calls of an operation
BackendCalls(bk) == {bk[i] : i \in 1..Len(bk)} \ {"policy_off"}

\* C15 as stated: a call that holds the write lock makes no call to the
\* positional backend (no read, write, sync or close), only ftruncate, mmap
\* and munmap.
C15_NoBackendUnderWriteLock ==
  [][lastop'.up => BackendCalls(lastop'.bk) = {}]_vars

\* C15 amended: under the write lock the only calls to the backend are the
\* positional writes of a growing write and the backend's close in close;
\* no backend read, sync, copy or state is made under the write lock.
C15_BackendUnderWriteLock ==
  [][lastop'.up =>
       BackendCalls(lastop'.bk) \subseteq
         (CASE lastop'.op = "write" -> {"write"}
            [] lastop'.op = "close" -> {"close"}
            [] OTHER -> {})]_vars

\* a growing write has written through the backend under the write lock
C15_Witness ==
  /\ lastop.op = "write" /\ lastop.up /\ lastop.pol /\ lastop.rc = "OK"
  /\ "write" \in BackendCalls(lastop.bk)

\* C16: when close returns, every slot is removed and its mapping given to
\* munmap, the backend's close was called once, and after it the policy got
\* one call with req = -1 and no sizing call, whatever failed on the way.
C16_Close ==
  [][(lastop'.op = "close" /\ ~closed) =>
       /\ closed'
       /\ mmslots' = 0 /\ \A i \in SlotIds : ~heap'[i].used
       /\ lastop'.lost = 0
       /\ lastop'.bk = <<"close", "policy_off">>
       /\ ~lastop'.pol]_vars

\* C17: on a closed instance every operation returns INVALID_STATE and
\* leaves the instance as it is.
C17_AfterClose ==
  [][closed => /\ lastop'.rc = "INVALID_STATE"
               /\ UNCHANGED <<impl, closed, rdlocks, registered>>]_vars

\* C21: a failing mmap leaves the slot with len = 0, so no slot has len > 0
\* together with a pointer that is not a valid mapping, and no read or write
\* goes through such a pointer.
C21_NoFailedMapping ==
  /\ \A i \in Slots : heap[i].len > 0 => heap[i].mm = "OK"
  /\ lastop.op \in {"read", "write"} => ~lastop.ub

\* C22: copy takes the mapped path only when the first slot starts at 0 and
\* its len covers both [src, src + size) and [dst, dst + size), so the
\* memmove stays below the slot's len.
C22_CopyInsideMapping ==
  [][(lastop'.op = "copy" /\ ~closed /\ lastop'.bk = <<>>) =>
       /\ mmslots # 0
       /\ heap[mmslots].off = 0
       /\ lastop'.a + lastop'.b <= heap[mmslots].len
       /\ lastop'.buf[1] + lastop'.b <= heap[mmslots].len]_vars

\* C23: after every operation the live mappings are exactly the registered
\* slots with len > 0: no operation frees a slot whose mapping is still live,
\* and a registered slot holds a live mapping exactly when its len is
\* positive.
C23_LiveMappings ==
  [][/\ lastop'.lost = 0
     /\ \A i \in Slots : heap'[i].used =>
          (heap'[i].len > 0 <=> heap'[i].mm = "OK")]_vars

\* the file offset x lies in the realised range of a registered slot
InRealised(h, x) ==
  \E i \in SlotIds : h[i].used /\ h[i].len > 0 /\ h[i].off <= x /\ x < h[i].off + h[i].len

\* the bytes a read or write that returned OK has transferred
Served(o) == o.a .. (o.a + o.sp - 1)

\* C24: in a read or write, a byte inside a realised slot range goes through
\* the mapping and a byte outside every realised range goes through the
\* positional backend; a request inside one realised range makes no backend
\* read or write call.
C24_BytePaths ==
  [][(lastop'.op \in {"read", "write"} /\ lastop'.rc = "OK") =>
       /\ \A x \in Served(lastop') : x \in lastop'.pb <=> ~InRealised(heap', x)
       /\ lastop'.pb \subseteq Served(lastop')
       /\ (\A x \in Served(lastop') : InRealised(heap', x)) =>
            \A k \in 1..Len(lastop'.bk) : lastop'.bk[k] \notin {"read", "write"}]_vars

\* a read or write that returned OK with bytes on both paths
C24_Witness ==
  /\ lastop.op \in {"read", "write"}
  /\ lastop.rc = "OK"
  /\ lastop.pb # {}
  /\ \E x \in Served(lastop) : x \notin lastop.pb

\* C25: in truncate, ensure_size and a growing write, growth calls ftruncate
\* before any slot is re-realised, shrinking calls it after them, and when
\* each system call returns (those of the recovery after a failure included)
\* every realised slot range lies within the file on disk.
C25_RangesInsideFile ==
  [][lastop'.op \in {"truncate", "ensure_size", "write"} =>
       /\ \A k \in 1..Len(lastop'.sys) : lastop'.sys[k].inside
       /\ (lastop'.op # "truncate" \/ fsize < IW_ROUNDUP(lastop'.a, PSIZE)) =>
            (lastop'.sys # <<>> => lastop'.sys[1].call = "ftruncate")
       /\ (lastop'.op = "truncate" /\ fsize > IW_ROUNDUP(lastop'.a, PSIZE)) =>
            \A k \in 1..Len(lastop'.sys) :
              lastop'.sys[k].call = "ftruncate" =>
                /\ \A j \in 1..(k - 1) : lastop'.sys[j].call # "ftruncate"
                /\ lastop'.sys[k].ok => k = Len(lastop'.sys)]_vars

\* a shrinking truncate whose ftruncate failed after slots were re-realised,
\* and whose recovery re-realised them again
C25_Witness ==
  /\ lastop.op = "truncate"
  /\ \E k \in 2..(Len(lastop.sys) - 1) :
       /\ lastop.sys[k].call = "ftruncate"
       /\ ~lastop.sys[k].ok

\* the offset range [off, off + siz) leaves the domain of off_t
Overflows(off, siz) == off < 0 \/ off + siz > OFF_T_MAX

\* C26: a read or write with off < 0, or with off + siz beyond the largest
\* offset, returns OUT_OF_BOUNDS with a byte count of 0 and touches neither a
\* lock nor the file, whatever siz is in the range of size_t.
C26_OutOfBounds ==
  [][(lastop'.op \in {"read", "write", "write_rd"} /\ lastop'.sys = <<>>
        /\ (\A t \in Threads : pc[t].at = "idle")
        /\ Overflows(lastop'.a, lastop'.b)) =>
       /\ lastop'.op # "write_rd"
       /\ lastop'.rc = "OUT_OF_BOUNDS"
       /\ lastop'.sp = 0
       /\ UNCHANGED <<impl, rdlocks>>]_vars

Blocked(t) == pc[t].at \in Parked /\ ~closed /\ ~exfile_wlock(rdlocks)

C29_SizeIsFileLength ==
  (~closed /\ \A t \in Threads : pc[t].at = "idle") => fsize = Len(data)

\* C30: an ensure_size or write that returns RESIZE_POLICY_FAIL, MAXOFF or
\* READONLY leaves fsize, the slots, the file's bytes and the context of the
\* resize policy as they were.
C30_RefusedGrowthKeepsState ==
  [][(/\ lastop'.op \in {"ensure_size", "write"}
      /\ lastop'.rc \in {"RESIZE_POLICY_FAIL", "MAXOFF", "READONLY"})
     => UNCHANGED <<fsize, heap, mmslots, data, rspolicy_ctx>>]_vars

\* C31: a read that meets a close by another thread either returns before the
\* instance is freed or returns INVALID_STATE: no read that returns on a closed
\* instance has used the freed instance or its destroyed lock.
C31_CloseRace ==
  [][(closed /\ lastop'.op = "read") =>
       /\ lastop'.rc = "INVALID_STATE"
       /\ ~lastop'.ub]_vars

\* C32: on an instance opened without write permission a write call stores
\* nothing through a mapping, takes no protection fault, and leaves the file
\* content as it was.
C32_ReadOnlyNoStore ==
  [][(omode = "IWFS_OREAD" /\ lastop'.op = "write") =>
       /\ lastop'.st = 0
       /\ lastop'.rc # "SIGSEGV"
       /\ data' = data]_vars
====
